---- MODULE Spec2Model ----
(***************************************************************************)
(* Omni-Con: the LSB steganographic codec of the Termux build              *)
(* (src/omnicon_termux.py: _xor, hide_msg, reveal_msg), with the output    *)
(* path of the desktop build's hide_msg (src/omni-con3.py), and the        *)
(* conversion and batch operations of both builds around the transcoder.   *)
(*                                                                         *)
(* Six specifications share the state: Spec (the Termux hide_msg and       *)
(* reveal_msg, step by step), XorSpec (_xor on its own), OutSpec (the      *)
(* hide_msg of both builds over every kind of output suffix), WinSpec (the *)
(* scan of reveal_msg over sentinels at every alignment), HideSpec         *)
(* (hide_msg alone, with the fairness of straight-line code) and ToolSpec  *)
(* (convert and the batch loops of both builds).                           *)
(*                                                                         *)
(* Images are pixel grids held as a raster sequence: pixel (x, y) is       *)
(* px[y * w + x + 1], a triple <<r, g, b>> of bytes.  Text is a sequence   *)
(* of character codes.  Passphrases are strings; their SHA-256 digests are *)
(* tabulated with the real digest bytes.                                   *)
(***************************************************************************)
EXTENDS Integers, Sequences, FiniteSets, TLC

(***************************************************************************)
(* Bounds of the explored inputs.                                          *)
(***************************************************************************)
MaxW == 8
MaxH == 3
MaxMsgLen == 2
MaxCalls == 2
MaxDataLen == 34
MaxFiles == 3

(***************************************************************************)
(* Input alphabets.                                                        *)
(***************************************************************************)
\* code points of the message characters: 'h' and U+00E9 (two UTF-8 bytes)
MsgChars == {104, 233}
\* "fa" and "pw" have SHA-256 digests that start with the same byte
Pwds == {"", "pw", "fa"}
InSuffixes == {"png", "txt"}
OutSuffixes == {"jpg", "dat"}
\* every kind of requested output suffix: lossless and lossy image names,
\* upper case, a name that is no image's, and none
AllOutSuffixes == {"png", "bmp", "webp", "jpg", "jpeg", "dat", "", "WEBP", "JPG"}
CoverKinds == {"black", "ramp"}

IMAGE_EXTS == {"png", "jpg", "jpeg", "bmp", "webp"}

\* suffix.lower(), on the suffixes of the model
Lower(sfx) ==
    CASE sfx = "WEBP" -> "webp"
      [] sfx = "JPG" -> "jpg"
      [] OTHER -> sfx

(***************************************************************************)
(* Bytes and bits.                                                         *)
(***************************************************************************)
RECURSIVE ByteXor(_, _)
\* the ^ of two non-negative integers
ByteXor(a, b) ==
    IF a = 0 THEN b
    ELSE IF b = 0 THEN a
    ELSE 2 * ByteXor(a \div 2, b \div 2) + (((a % 2) + (b % 2)) % 2)

\* the eight bits of a character code, least significant first
Format08b_lsbfirst(c) ==
    << c % 2, (c \div 2) % 2, (c \div 4) % 2, (c \div 8) % 2,
       (c \div 16) % 2, (c \div 32) % 2, (c \div 64) % 2, (c \div 128) % 2 >>

\* format(c, '08b'): the eight bits of a character code, most significant first
Format08b(c) ==
    << (c \div 128) % 2, (c \div 64) % 2, (c \div 32) % 2, (c \div 16) % 2,
       (c \div 8) % 2, (c \div 4) % 2, (c \div 2) % 2, c % 2 >>

\* int(''.join(byte), 2) of eight bits
IntOfBits(b) ==
    128 * b[1] + 64 * b[2] + 32 * b[3] + 16 * b[4] + 8 * b[5] + 4 * b[6] + 2 * b[7] + b[8]

RECURSIVE Flatten(_)
\* ''.join(...) of a sequence of sequences
Flatten(ss) == IF ss = << >> THEN << >> ELSE Head(ss) \o Flatten(Tail(ss))

(***************************************************************************)
(* hashlib.sha256(key.encode()).digest() for the passphrases of Pwds.      *)
(***************************************************************************)
Sha256Digest(key) ==
    CASE key = "pw" ->
           << 48, 201, 82, 250, 177, 34, 195, 249, 117, 159, 2, 166, 217, 92, 55, 88,
              178, 70, 180, 254, 226, 57, 149, 123, 45, 79, 238, 70, 226, 97, 112, 196 >>
      [] key = "fa" ->
           << 48, 151, 226, 107, 127, 60, 189, 185, 32, 118, 90, 108, 61, 43, 169, 73,
              133, 228, 101, 204, 203, 6, 100, 198, 44, 236, 67, 253, 199, 84, 70, 112 >>
      [] key = "" ->
           << 227, 176, 196, 66, 152, 252, 28, 20, 154, 251, 244, 200, 153, 111, 185, 36,
              39, 174, 65, 228, 100, 155, 147, 76, 164, 149, 153, 27, 120, 82, 184, 85 >>

\* _xor with the first digest byte used for every position
_xor_nocycle(data, key) ==
    LET key_b == Sha256Digest(key)
    IN  [i \in 1..Len(data) |-> ByteXor(data[i], key_b[1])]

\* _xor with zip(data, key_b): the digest not cycled, the output cut to its length
_xor_zip(data, key) ==
    LET key_b == Sha256Digest(key)
        n == IF Len(data) < Len(key_b) THEN Len(data) ELSE Len(key_b)
    IN  [i \in 1..n |-> ByteXor(data[i], key_b[i])]

\* _xor with the digest byte added modulo 256 in place of the exclusive or
_xor_add(data, key) ==
    LET key_b == Sha256Digest(key)
    IN  [i \in 1..Len(data) |-> (data[i] + key_b[((i - 1) % Len(key_b)) + 1]) % 256]

\* _xor(data, key): each byte XOR the digest byte at the same position, the digest cycled
_xor(data, key) ==
    LET key_b == Sha256Digest(key)
    IN  [i \in 1..Len(data) |-> ByteXor(data[i], key_b[((i - 1) % Len(key_b)) + 1])]

(***************************************************************************)
(* str.encode() and bytes.decode(): UTF-8.                                 *)
(***************************************************************************)
\* the UTF-8 bytes of one code point
Utf8Char(cp) ==
    IF cp < 128 THEN << cp >>
    ELSE IF cp < 2048 THEN << 192 + (cp \div 64), 128 + (cp % 64) >>
    ELSE IF cp < 65536 THEN
        << 224 + (cp \div 4096), 128 + ((cp \div 64) % 64), 128 + (cp % 64) >>
    ELSE << 240 + (cp \div 262144), 128 + ((cp \div 4096) % 64),
            128 + ((cp \div 64) % 64), 128 + (cp % 64) >>

\* msg.encode()
Utf8Encode(str) == Flatten([i \in 1..Len(str) |-> Utf8Char(str[i])])

DecodeFail == [ok |-> FALSE, val |-> << >>]

RECURSIVE Utf8DecodeFrom(_, _)
\* strict UTF-8 decoding of b from position i: overlong forms, surrogates,
\* stray continuation bytes and truncated sequences are errors
Utf8DecodeFrom(b, i) ==
    IF i > Len(b) THEN [ok |-> TRUE, val |-> << >>]
    ELSE
      LET c == b[i]
          n == IF c < 128 THEN 1
               ELSE IF c >= 194 /\ c <= 223 THEN 2
               ELSE IF c >= 224 /\ c <= 239 THEN 3
               ELSE IF c >= 240 /\ c <= 244 THEN 4
               ELSE 0
          Cont(j) == j <= Len(b) /\ b[j] >= 128 /\ b[j] <= 191
          valid ==
            \/ n = 1
            \/ n = 2 /\ Cont(i + 1)
            \/ /\ n = 3 /\ Cont(i + 1) /\ Cont(i + 2)
               /\ (c = 224 => b[i + 1] >= 160)
               /\ (c = 237 => b[i + 1] <= 159)
            \/ /\ n = 4 /\ Cont(i + 1) /\ Cont(i + 2) /\ Cont(i + 3)
               /\ (c = 240 => b[i + 1] >= 144)
               /\ (c = 244 => b[i + 1] <= 143)
          cp == CASE n = 1 -> c
                  [] n = 2 -> (c - 192) * 64 + (b[i + 1] - 128)
                  [] n = 3 -> (c - 224) * 4096 + (b[i + 1] - 128) * 64 + (b[i + 2] - 128)
                  [] n = 4 -> (c - 240) * 262144 + (b[i + 1] - 128) * 4096
                              + (b[i + 2] - 128) * 64 + (b[i + 3] - 128)
          rest == Utf8DecodeFrom(b, i + n)
      IN  IF ~valid THEN DecodeFail
          ELSE IF ~rest.ok THEN DecodeFail
          ELSE [ok |-> TRUE, val |-> << cp >> \o rest.val]

\* bytes.decode()
Utf8Decode(b) == Utf8DecodeFrom(b, 1)

(***************************************************************************)
(* base64.b64encode and base64.b64decode (validate=False).                 *)
(***************************************************************************)
\* the base64 digit itself in place of its character
B64Char_digit(v) == v

\* the character code of the base64 digit v
B64Char(v) ==
    IF v < 26 THEN 65 + v
    ELSE IF v < 52 THEN 97 + (v - 26)
    ELSE IF v < 62 THEN 48 + (v - 52)
    ELSE IF v = 62 THEN 43
    ELSE 47

B64Pad == 61

\* the base64 digit of a character code, 64 for a character outside the alphabet
B64Val(c) ==
    IF c >= 65 /\ c <= 90 THEN c - 65
    ELSE IF c >= 97 /\ c <= 122 THEN c - 97 + 26
    ELSE IF c >= 48 /\ c <= 57 THEN c - 48 + 52
    ELSE IF c = 43 THEN 62
    ELSE IF c = 47 THEN 63
    ELSE 64

RECURSIVE B64Encode(_)
B64Encode(d) ==
    IF Len(d) = 0 THEN << >>
    ELSE IF Len(d) = 1 THEN
        << B64Char(d[1] \div 4), B64Char((d[1] % 4) * 16), B64Pad, B64Pad >>
    ELSE IF Len(d) = 2 THEN
        << B64Char(d[1] \div 4), B64Char((d[1] % 4) * 16 + (d[2] \div 16)),
           B64Char((d[2] % 16) * 4), B64Pad >>
    ELSE
        << B64Char(d[1] \div 4), B64Char((d[1] % 4) * 16 + (d[2] \div 16)),
           B64Char((d[2] % 16) * 4 + (d[3] \div 64)), B64Char(d[3] % 64) >>
        \o B64Encode(SubSeq(d, 4, Len(d)))

RECURSIVE A2bBase64(_, _, _, _, _, _)
\* binascii.a2b_base64 in its non-strict mode, from position i of s: characters
\* outside the alphabet are skipped, a completing pad sequence ends the parse,
\* an unfinished quad at the end of the input is an error
A2bBase64(s, i, quad_pos, leftchar, pads, out) ==
    IF i > Len(s) THEN
        IF quad_pos # 0 THEN DecodeFail ELSE [ok |-> TRUE, val |-> out]
    ELSE IF s[i] = B64Pad THEN
        IF quad_pos >= 2 /\ quad_pos + pads + 1 >= 4
        THEN [ok |-> TRUE, val |-> out]
        ELSE A2bBase64(s, i + 1, quad_pos, leftchar,
                       IF quad_pos >= 2 THEN pads + 1 ELSE pads, out)
    ELSE
      LET v == B64Val(s[i])
      IN  IF v >= 64 THEN A2bBase64(s, i + 1, quad_pos, leftchar, pads, out)
          ELSE CASE quad_pos = 0 -> A2bBase64(s, i + 1, 1, v, 0, out)
                 [] quad_pos = 1 ->
                      A2bBase64(s, i + 1, 2, v % 16, 0,
                                Append(out, leftchar * 4 + (v \div 16)))
                 [] quad_pos = 2 ->
                      A2bBase64(s, i + 1, 3, v % 4, 0,
                                Append(out, leftchar * 16 + (v \div 4)))
                 [] quad_pos = 3 ->
                      A2bBase64(s, i + 1, 0, 0, 0, Append(out, leftchar * 64 + v))

\* base64.b64decode(s) of a str: the string must be ASCII, then a2b_base64
B64Decode(s) ==
    IF \E i \in 1..Len(s) : s[i] >= 128 THEN DecodeFail
    ELSE A2bBase64(s, 1, 0, 0, 0, << >>)

(***************************************************************************)
(* Images and files.                                                       *)
(***************************************************************************)
\* the channel value of a cover image at traversal index i (three per pixel)
CoverValue(kind, i) ==
    CASE kind = "black" -> 0
      [] kind = "ramp" -> (85 * i + 1) % 256

CoverImage(kind, w, h) ==
    [w |-> w, h |-> h,
     px |-> [k \in 1..(w * h) |->
               << CoverValue(kind, 3 * (k - 1)), CoverValue(kind, 3 * (k - 1) + 1),
                  CoverValue(kind, 3 * (k - 1) + 2) >>]]

Covers == {CoverImage(kind, w, h) : kind \in CoverKinds, w \in 1..MaxW, h \in 1..MaxH}

Msgs == UNION {[1..n -> MsgChars] : n \in 0..MaxMsgLen}

NoFile == [suffix |-> "", format |-> "", img |-> [w |-> 0, h |-> 0, px |-> << >>]]
NoImage == NoFile.img

\* pixels[x, y]
PixelAt(img, x, y) == img.px[y * img.w + x + 1]

\* pixels[x, y] = p
SetPixel(img, x, y, p) == [img EXCEPT !.px[y * img.w + x + 1] = p]

\* the channel at traversal index i (from 0): raster order, R, G, B within a pixel
ChannelAt(img, i) == img.px[(i \div 3) + 1][(i % 3) + 1]

(***************************************************************************)
(* State.                                                                  *)
(***************************************************************************)
VARIABLES
    coverFile,   \* the source image file: its suffix and its pixel data
    outFile,     \* the stego image file written by hide_msg, NoFile before
    pc,          \* position of the program: "menu" or a place inside a call
    msg, pwd,    \* hide_msg: the message and the passphrase
    img_out,     \* hide_msg: the suffix of the output path
    bits,        \* hide_msg: the bitstream
    pixels,      \* hide_msg: the loaded pixel buffer
    x, y,        \* hide_msg: the loop variables
    bit_idx,     \* hide_msg: the cursor into bits
    hideCalls,   \* number of finished hide_msg calls
    hideLog,     \* outcome of each finished hide_msg call
    rsrc, rpwd,  \* reveal_msg: which file is read, and the passphrase
    rpixels,     \* reveal_msg: the loaded pixel buffer
    rbits,       \* reveal_msg: the collected bits
    chars,       \* reveal_msg: the characters built from the collected bits
    rx, ry,      \* reveal_msg: the loop variables
    rbroke,      \* reveal_msg: the scan left the loops through the break
    revealCalls, \* number of finished reveal_msg calls
    revealLog,   \* outcome of each finished reveal_msg call
    xdata, xkey, \* _xor on its own: the bytes and the key it is first given
    xbuf,        \* _xor on its own: the bytes after the passes made so far
    xpasses,     \* _xor on its own: the number of passes made
    build,       \* conversion and batches: the build that runs, "termux" or "desktop"
    folder,      \* the files of the folder: suffix, and what the external tool does
    job,         \* the operation under way and its argument
    files,       \* the batch: the selected files, as positions in folder
    fidx,        \* the batch: the number of loop iterations made
    calls,       \* what each call on a file did
    running      \* FALSE once sys.exit has been called

hideVars == << msg, pwd, img_out, bits, pixels, x, y, bit_idx, hideCalls, hideLog >>
revealVars == << rsrc, rpwd, rpixels, rbits, chars, rx, ry, rbroke, revealCalls, revealLog >>
xorVars == << xdata, xkey, xbuf, xpasses >>
toolVars == << build, folder, job, files, fidx, calls, running >>
vars == << coverFile, outFile, pc, hideVars, revealVars, xorVars, toolVars >>

\* no call of hide_msg or reveal_msg has been made
CodecIdle ==
    /\ outFile = NoFile
    /\ pc = "menu"
    /\ msg = << >> /\ pwd = "" /\ img_out = ""
    /\ bits = << >> /\ pixels = NoImage
    /\ x = 0 /\ y = 0 /\ bit_idx = 0
    /\ hideCalls = 0 /\ hideLog = << >>
    /\ rsrc = "" /\ rpwd = ""
    /\ rpixels = NoImage /\ rbits = << >> /\ chars = << >>
    /\ rx = 0 /\ ry = 0 /\ rbroke = FALSE
    /\ revealCalls = 0 /\ revealLog = << >>

XorIdle == xdata = << >> /\ xkey = "" /\ xbuf = << >> /\ xpasses = 0

\* no conversion and no batch has been asked for
NoJob == [op |-> "", arg |-> "", over |-> FALSE]

ToolIdle ==
    /\ build = "" /\ folder = << >>
    /\ job = NoJob /\ files = << >> /\ fidx = 0
    /\ calls = << >> /\ running = TRUE

Init ==
    /\ coverFile \in {[suffix |-> sfx, img |-> c] : sfx \in InSuffixes, c \in Covers}
    /\ CodecIdle
    /\ XorIdle
    /\ ToolIdle

(***************************************************************************)
(* hide_msg.                                                               *)
(***************************************************************************)
\* cipher = base64.b64encode(_xor(msg.encode(), pwd)).decode()
Cipher(m, p) == B64Encode(_xor(Utf8Encode(m), p))

\* bits = ''.join(format(ord(c), '08b') for c in cipher + '\0')
BitsOf(cipher) == Flatten([i \in 1..(Len(cipher) + 1) |->
                             Format08b(IF i <= Len(cipher) THEN cipher[i] ELSE 0)])

\* max_bits = width * height * 3
MaxBits(img) == img.w * img.h * 3

\* the capacity test with the capacity taken for a number of bytes
TooLarge_bytes(nbits, max_bits) == nbits > max_bits * 8

\* the capacity test with >= for >
TooLarge_ge(nbits, max_bits) == nbits >= max_bits

\* the capacity test: len(bits) > max_bits
TooLarge(nbits, max_bits) == nbits > max_bits

\* (v & 1) | bit
SetLSB_and1(v, bit) == IF v % 2 = 1 \/ bit = 1 THEN 1 ELSE 0

\* (v & ~1) | bit
SetLSB(v, bit) == (v - (v % 2)) + bit

\* the loop body with the cursor advanced by three for every pixel
EmbedPixel_by3(p, bs, idx) ==
    LET r == IF idx < Len(bs) THEN SetLSB(p[1], bs[idx + 1]) ELSE p[1]
        g == IF idx + 1 < Len(bs) THEN SetLSB(p[2], bs[idx + 2]) ELSE p[2]
        b == IF idx + 2 < Len(bs) THEN SetLSB(p[3], bs[idx + 3]) ELSE p[3]
    IN  [px |-> << r, g, b >>, idx |-> idx + 3]

\* the loop body with the channels taken in the order B, G, R
EmbedPixel_bgr(p, bs, idx) ==
    LET b == IF idx < Len(bs) THEN SetLSB(p[3], bs[idx + 1]) ELSE p[3]
        i1 == IF idx < Len(bs) THEN idx + 1 ELSE idx
        g == IF i1 < Len(bs) THEN SetLSB(p[2], bs[i1 + 1]) ELSE p[2]
        i2 == IF i1 < Len(bs) THEN i1 + 1 ELSE i1
        r == IF i2 < Len(bs) THEN SetLSB(p[1], bs[i2 + 1]) ELSE p[1]
        i3 == IF i2 < Len(bs) THEN i2 + 1 ELSE i2
    IN  [px |-> << r, g, b >>, idx |-> i3]

\* the loop body with the G and B channels cleared once the bits are exhausted
EmbedPixel_pad(p, bs, idx) ==
    LET r == IF idx < Len(bs) THEN SetLSB(p[1], bs[idx + 1]) ELSE p[1]
        i1 == IF idx < Len(bs) THEN idx + 1 ELSE idx
        g == SetLSB(p[2], IF i1 < Len(bs) THEN bs[i1 + 1] ELSE 0)
        i2 == IF i1 < Len(bs) THEN i1 + 1 ELSE i1
        b == SetLSB(p[3], IF i2 < Len(bs) THEN bs[i2 + 1] ELSE 0)
        i3 == IF i2 < Len(bs) THEN i2 + 1 ELSE i2
    IN  [px |-> << r, g, b >>, idx |-> i3]

\* the body of the embedding loop for one pixel: each channel takes the next
\* bit while bits remain; returns the new pixel and the new cursor
EmbedPixel(p, bs, idx) ==
    LET r == IF idx < Len(bs) THEN SetLSB(p[1], bs[idx + 1]) ELSE p[1]
        i1 == IF idx < Len(bs) THEN idx + 1 ELSE idx
        g == IF i1 < Len(bs) THEN SetLSB(p[2], bs[i1 + 1]) ELSE p[2]
        i2 == IF i1 < Len(bs) THEN i1 + 1 ELSE i1
        b == IF i2 < Len(bs) THEN SetLSB(p[3], bs[i2 + 1]) ELSE p[3]
        i3 == IF i2 < Len(bs) THEN i2 + 1 ELSE i2
    IN  [px |-> << r, g, b >>, idx |-> i3]

HideFinish(outcome) ==
    /\ pc' = "menu"
    /\ hideCalls' = hideCalls + 1
    /\ hideLog' = Append(hideLog, outcome)

\* HideStart with the image opened and loaded ahead of the argument checks
HideStart_openfirst ==
    /\ pc = "menu"
    /\ hideCalls < MaxCalls
    /\ pixels' = coverFile.img
    /\ \E m \in Msgs, p \in Pwds, o \in OutSuffixes :
         /\ hideCalls > 0 => (m = msg /\ p = pwd /\ o = img_out)
         /\ msg' = m /\ pwd' = p
         /\ IF coverFile.suffix \notin IMAGE_EXTS \/ m = << >> \/ p = ""
            THEN /\ HideFinish([kind |-> "InvalidArgument", out |-> NoFile])
                 /\ img_out' = o
                 /\ UNCHANGED bits
            ELSE /\ img_out' = IF o \notin IMAGE_EXTS THEN "png" ELSE o
                 /\ bits' = BitsOf(Cipher(m, p))
                 /\ pc' = "hide_load"
                 /\ UNCHANGED << hideCalls, hideLog >>
    /\ UNCHANGED << coverFile, outFile, x, y, bit_idx, revealVars, xorVars, toolVars >>

\* the argument checks, the output suffix, the cipher frame and the bitstream,
\* for a requested output suffix of outs
HideStartFrom(outs) ==
    /\ pc = "menu"
    /\ hideCalls < MaxCalls
    /\ \E m \in Msgs, p \in Pwds, o \in outs :
         /\ hideCalls > 0 => (m = msg /\ p = pwd /\ o = img_out)
         /\ msg' = m /\ pwd' = p
         /\ IF Lower(coverFile.suffix) \notin IMAGE_EXTS \/ m = << >> \/ p = ""
            THEN /\ HideFinish([kind |-> "InvalidArgument", out |-> NoFile])
                 /\ img_out' = o
                 /\ UNCHANGED bits
            ELSE /\ img_out' = IF Lower(o) \notin IMAGE_EXTS THEN "png" ELSE o
                 /\ bits' = BitsOf(Cipher(m, p))
                 /\ pc' = "hide_load"
                 /\ UNCHANGED << hideCalls, hideLog >>
    /\ UNCHANGED << coverFile, outFile, pixels, x, y, bit_idx, revealVars, xorVars, toolVars >>

HideStart == HideStartFrom(OutSuffixes)

\* raise ValueError("Message too large for image capacity."): the outcome
\* carries the fixed text and nothing else
CapacityExceeded ==
    [kind |-> "CapacityExceeded", out |-> NoFile,
     message |-> "Message too large for image capacity."]

\* HideLoad with the cursor left where the previous call stopped
HideLoad_stale ==
    /\ pc = "hide_load"
    /\ pixels' = coverFile.img
    /\ IF TooLarge(Len(bits), MaxBits(coverFile.img))
       THEN /\ HideFinish(CapacityExceeded)
            /\ UNCHANGED << x, y, bit_idx >>
       ELSE /\ pc' = "hide_loop"
            /\ x' = 0 /\ y' = 0 /\ bit_idx' = bit_idx
            /\ UNCHANGED << hideCalls, hideLog >>
    /\ UNCHANGED << coverFile, outFile, msg, pwd, img_out, bits, revealVars, xorVars, toolVars >>

\* the image is loaded and the capacity is checked
HideLoad ==
    /\ pc = "hide_load"
    /\ pixels' = coverFile.img
    /\ IF TooLarge(Len(bits), MaxBits(coverFile.img))
       THEN /\ HideFinish(CapacityExceeded)
            /\ UNCHANGED << x, y, bit_idx >>
       ELSE /\ pc' = "hide_loop"
            /\ x' = 0 /\ y' = 0 /\ bit_idx' = 0
            /\ UNCHANGED << hideCalls, hideLog >>
    /\ UNCHANGED << coverFile, outFile, msg, pwd, img_out, bits, revealVars, xorVars, toolVars >>

\* one iteration of the inner loop that embeds into pixel (x, y)
HidePixel ==
    /\ pc = "hide_loop"
    /\ y < pixels.h
    /\ bit_idx < Len(bits)
    /\ LET e == EmbedPixel(PixelAt(pixels, x, y), bits, bit_idx)
       IN  /\ pixels' = SetPixel(pixels, x, y, e.px)
           /\ bit_idx' = e.idx
    /\ IF x + 1 < pixels.w
       THEN x' = x + 1 /\ y' = y
       ELSE x' = 0 /\ y' = y + 1
    /\ UNCHANGED << coverFile, outFile, pc, msg, pwd, img_out, bits, hideCalls, hideLog,
                    revealVars, xorVars, toolVars >>

\* the bits are exhausted: the inner loop breaks and the next row starts
HideBreak ==
    /\ pc = "hide_loop"
    /\ y < pixels.h
    /\ bit_idx >= Len(bits)
    /\ x' = 0 /\ y' = y + 1
    /\ UNCHANGED << coverFile, outFile, pc, msg, pwd, img_out, bits, pixels, bit_idx,
                    hideCalls, hideLog, revealVars, xorVars, toolVars >>

\* img.save(img_out, format="PNG")
HideSave ==
    /\ pc = "hide_loop"
    /\ y = pixels.h
    /\ outFile' = [suffix |-> img_out, format |-> "PNG", img |-> pixels]
    /\ HideFinish([kind |-> "ok", out |-> outFile'])
    /\ UNCHANGED << coverFile, msg, pwd, img_out, bits, pixels, x, y, bit_idx, revealVars, xorVars, toolVars >>

(***************************************************************************)
(* reveal_msg.                                                             *)
(***************************************************************************)
\* the file a reveal_msg call reads
FileOf(src) == IF src = "out" THEN outFile ELSE coverFile

\* the low bits of a pixel taken in the order B, G, R
PixelLSBs_bgr(p) == << p[3] % 2, p[2] % 2, p[1] % 2 >>

\* [str(r & 1), str(g & 1), str(b & 1)]
PixelLSBs(p) == << p[1] % 2, p[2] % 2, p[3] % 2 >>

\* the termination test on the last six bits
NullTerminated_six(bs) ==
    /\ Len(bs) >= 8
    /\ \A i \in (Len(bs) - 5)..Len(bs) : bs[i] = 0

\* len(bits) >= 8 and ''.join(bits[-8:]) == '00000000'
NullTerminated(bs) ==
    /\ Len(bs) >= 8
    /\ \A i \in (Len(bs) - 7)..Len(bs) : bs[i] = 0

\* the characters of the collected bits: whole groups of eight, from bit 0
CharsOf(bs) == [i \in 1..(Len(bs) \div 8) |-> IntOfBits(SubSeq(bs, 8 * i - 7, 8 * i))]

\* _xor(base64.b64decode(cipher), pwd).decode(), any exception a ValueError
Decrypt(cipher, p) ==
    LET raw == B64Decode(cipher)
        txt == Utf8Decode(_xor(raw.val, p))
    IN  IF ~raw.ok THEN [kind |-> "DecryptionFailed", text |-> << >>]
        ELSE IF ~txt.ok THEN [kind |-> "DecryptionFailed", text |-> << >>]
        ELSE [kind |-> "ok", text |-> txt.val]

RevealFinish(src, p, broke, cipher, result) ==
    /\ pc' = "menu"
    /\ revealCalls' = revealCalls + 1
    /\ revealLog' = Append(revealLog,
                           [src |-> src, pwd |-> p, img |-> FileOf(src).img,
                            broke |-> broke, nbits |-> Len(rbits), cipher |-> cipher,
                            result |-> result])

\* RevealStart with the bits of the previous call kept
RevealStart_stale ==
    /\ pc = "menu"
    /\ revealCalls < MaxCalls
    /\ \E src \in {"cover"} \cup (IF outFile # NoFile THEN {"out"} ELSE {}), p \in Pwds :
         /\ revealCalls > 0 => (src = rsrc /\ p = rpwd)
         /\ rsrc' = src /\ rpwd' = p
         /\ rbroke' = FALSE
         /\ IF FileOf(src).suffix \notin IMAGE_EXTS \/ p = ""
            THEN /\ RevealFinish(src, p, FALSE, << >>,
                                 [kind |-> "InvalidArgument", text |-> << >>])
                 /\ UNCHANGED << rpixels, rbits, chars, rx, ry >>
            ELSE /\ rpixels' = FileOf(src).img
                 /\ rbits' = rbits
                 /\ chars' = << >>
                 /\ rx' = 0 /\ ry' = 0
                 /\ pc' = "reveal_loop"
                 /\ UNCHANGED << revealCalls, revealLog >>
    /\ UNCHANGED << coverFile, outFile, xorVars, toolVars, hideVars >>

\* the argument checks and the loading of the image
RevealStart ==
    /\ pc = "menu"
    /\ revealCalls < MaxCalls
    /\ \E src \in {"cover"} \cup (IF outFile # NoFile THEN {"out"} ELSE {}), p \in Pwds :
         /\ revealCalls > 0 => (src = rsrc /\ p = rpwd)
         /\ rsrc' = src /\ rpwd' = p
         /\ rbroke' = FALSE
         /\ IF FileOf(src).suffix \notin IMAGE_EXTS \/ p = ""
            THEN /\ RevealFinish(src, p, FALSE, << >>,
                                 [kind |-> "InvalidArgument", text |-> << >>])
                 /\ UNCHANGED << rpixels, rbits, chars, rx, ry >>
            ELSE /\ rpixels' = FileOf(src).img
                 /\ rbits' = << >>
                 /\ chars' = << >>
                 /\ rx' = 0 /\ ry' = 0
                 /\ pc' = "reveal_loop"
                 /\ UNCHANGED << revealCalls, revealLog >>
    /\ UNCHANGED << coverFile, outFile, xorVars, toolVars, hideVars >>

\* one iteration of the inner loop: the three low bits of pixel (rx, ry) are
\* collected, then the last eight collected bits are tested
RevealPixel ==
    /\ pc = "reveal_loop"
    /\ ry < rpixels.h
    /\ LET bs == rbits \o PixelLSBs(PixelAt(rpixels, rx, ry))
       IN  IF NullTerminated(bs)
           THEN /\ rbits' = SubSeq(bs, 1, Len(bs) - 8)
                /\ rbroke' = TRUE
                /\ pc' = "reveal_decode"
                /\ UNCHANGED << rx, ry >>
           ELSE /\ rbits' = bs
                /\ IF rx + 1 < rpixels.w
                   THEN rx' = rx + 1 /\ ry' = ry
                   ELSE rx' = 0 /\ ry' = ry + 1
                /\ pc' = IF rx + 1 < rpixels.w \/ ry + 1 < rpixels.h
                         THEN "reveal_loop" ELSE "reveal_decode"
                /\ UNCHANGED rbroke
    /\ UNCHANGED << coverFile, outFile, xorVars, toolVars, hideVars, rsrc, rpwd, rpixels, chars,
                    revealCalls, revealLog >>

\* the bits become characters and the cipher text is decrypted
RevealDecode ==
    /\ pc = "reveal_decode"
    /\ chars' = CharsOf(rbits)
    /\ RevealFinish(rsrc, rpwd, rbroke, chars', Decrypt(chars', rpwd))
    /\ UNCHANGED << coverFile, outFile, xorVars, toolVars, hideVars, rsrc, rpwd, rpixels, rbits, rx, ry,
                    rbroke >>

Next ==
    \/ HideStart
    \/ HideLoad
    \/ HidePixel
    \/ HideBreak
    \/ HideSave
    \/ RevealStart
    \/ RevealPixel
    \/ RevealDecode

Spec == Init /\ [][Next]_vars

(***************************************************************************)
(* Vocabulary of the properties.                                           *)
(***************************************************************************)
\* the low bit of every channel of an image, in traversal order
LSBs(img) == [i \in 1..(3 * Len(img.px)) |-> ChannelAt(img, i - 1) % 2]

\* the 8-bit codes of an image's low bits grouped from bit 0
AlignedCodes(img) == CharsOf(LSBs(img))

\* the positions of the all-zero codes among the byte-aligned groups
AlignedZeros(img) == {k \in 1..Len(AlignedCodes(img)) : AlignedCodes(img)[k] = 0}

Min(S) == CHOOSE m \in S : \A n \in S : m <= n

\* the finished reveal_msg calls that got past the argument checks
Scans == {i \in 1..Len(revealLog) : revealLog[i].result.kind # "InvalidArgument"}

\* the finished reveal_msg calls that read the stego image written by hide_msg
StegoScans == {i \in Scans : revealLog[i].src = "out"}

Revealed(text) == [kind |-> "ok", text |-> text]

\* a hide_msg call is past its argument checks, or one has finished
HideArgsValid ==
    /\ pc \in {"hide_load", "hide_loop"} \/ hideCalls > 0
    /\ coverFile.suffix \in IMAGE_EXTS /\ msg # << >> /\ pwd # ""

\* C1: a reveal_msg on the image written by hide_msg, with the passphrase of
\* the embedding, returns exactly the embedded message
RoundTrip ==
    \A i \in StegoScans :
        revealLog[i].pwd = pwd => revealLog[i].result = Revealed(msg)

\* C2: the scan ends at the first byte-aligned all-zero code and nowhere else:
\* a break happens only with a whole number of codes collected, the codes
\* returned are exactly those before the first aligned zero code, and without
\* an aligned zero code the scan does not break
ByteAlignedSentinel ==
    \A i \in Scans :
        LET e == revealLog[i]
            Z == AlignedZeros(e.img)
        IN  /\ e.broke => e.nbits % 8 = 0
            /\ Z # {} => e.broke /\ e.cipher = SubSeq(AlignedCodes(e.img), 1, Min(Z) - 1)
            /\ Z = {} => ~e.broke

\* C3: a scan of an image without any byte-aligned zero code never returns a string
NoSentinelFails ==
    \A i \in Scans :
        AlignedZeros(revealLog[i].img) = {} => revealLog[i].result.kind # "ok"

\* C4: while the bitstream is longer than the capacity of the image, no
\* channel of the pixel buffer differs from the source and no output is written
CapacityRejectedUntouched ==
    (HideArgsValid /\ Len(BitsOf(Cipher(msg, pwd))) > 3 * coverFile.img.w * coverFile.img.h)
        => /\ outFile = NoFile
           /\ pixels \in {NoImage, coverFile.img}
           /\ pc # "hide_loop"
           /\ \A i \in 1..Len(hideLog) : hideLog[i].kind = "CapacityExceeded"

CapacityRejectedWitness ==
    /\ HideArgsValid
    /\ hideLog # << >>
    /\ hideLog[1].kind = "CapacityExceeded"
    /\ pixels = coverFile.img

\* C5: a frame of exactly capacity - 8 bits embeds successfully, and a frame
\* whose bit length plus 8 exceeds the capacity fails with the capacity error
CapacityBoundary ==
    HideArgsValid =>
        LET frameBits == 8 * Len(Cipher(msg, pwd))
            capacity == 3 * coverFile.img.w * coverFile.img.h
        IN  \A i \in 1..Len(hideLog) :
              /\ frameBits = capacity - 8 => hideLog[i].kind = "ok"
              /\ frameBits + 8 > capacity => hideLog[i].kind = "CapacityExceeded"

CapacityBoundaryWitness ==
    /\ HideArgsValid
    /\ 8 * Len(Cipher(msg, pwd)) = 3 * coverFile.img.w * coverFile.img.h - 8
    /\ hideLog # << >>
    /\ hideLog[1].kind = "ok"

\* every channel of img has the upper seven bits of the same channel of the source
SameUpperBits(img) ==
    \A k \in 1..Len(img.px) : \A c \in 1..3 :
        img.px[k][c] \div 2 = coverFile.img.px[k][c] \div 2

\* C6: in every state of the embedding loop, and in the image written, every
\* channel keeps the upper seven bits it has in the source image
UpperBitsUnchanged ==
    /\ pc = "hide_loop" => SameUpperBits(pixels)
    /\ outFile # NoFile => SameUpperBits(outFile.img)

UpperBitsWitness ==
    /\ pc = "hide_loop"
    /\ bit_idx = Len(bits)
    /\ \E k \in 1..Len(pixels.px) : \E c \in 1..3 :
         /\ pixels.px[k][c] # coverFile.img.px[k][c]
         /\ coverFile.img.px[k][c] >= 2

\* every channel of img at traversal index >= n is the channel of the source
SameBeyond(img, n) ==
    \A i \in n..(3 * Len(img.px) - 1) : ChannelAt(img, i) = ChannelAt(coverFile.img, i)

\* C7: every channel at a traversal index >= len(bits) is identical to the
\* source image, in the loop and in the image written
BeyondPrefixUntouched ==
    /\ pc = "hide_loop" => SameBeyond(pixels, Len(bits))
    /\ outFile # NoFile => SameBeyond(outFile.img, Len(bits))

\* the last bit went into the R channel of a pixel whose G channel is odd
BeyondPrefixWitness ==
    /\ outFile # NoFile
    /\ Len(bits) < MaxBits(coverFile.img)
    /\ Len(bits) % 3 = 1
    /\ ChannelAt(coverFile.img, Len(bits)) % 2 = 1
    /\ outFile.img # coverFile.img

\* C8 as claimed: a reveal_msg with a passphrase other than the one of the
\* embedding never returns the embedded message
WrongPassphraseNeverReveals ==
    \A i \in StegoScans :
        revealLog[i].pwd # pwd => revealLog[i].result # Revealed(msg)

\* the two digests differ at a position the message's bytes are XORed with
KeystreamsDiffer(p1, p2, m) ==
    \E i \in 1..Len(Utf8Encode(m)) :
        Sha256Digest(p1)[((i - 1) % Len(Sha256Digest(p1))) + 1]
            # Sha256Digest(p2)[((i - 1) % Len(Sha256Digest(p2))) + 1]

\* C8 amended: a reveal_msg with a passphrase whose digest differs from the
\* embedding passphrase's digest at a position used on the message's bytes
\* never returns the embedded message
WrongPassphraseDiverges ==
    \A i \in StegoScans :
        (revealLog[i].pwd # pwd /\ KeystreamsDiffer(pwd, revealLog[i].pwd, msg))
            => revealLog[i].result # Revealed(msg)

\* a wrong passphrase with a different keystream yields a clean, different string
WrongPassphraseWitness ==
    \E i \in StegoScans :
        /\ revealLog[i].pwd # pwd
        /\ KeystreamsDiffer(pwd, revealLog[i].pwd, msg)
        /\ revealLog[i].result.kind = "ok"
        /\ revealLog[i].result.text # msg

\* C9: two reveal_msg calls on the same pixel data with the same passphrase
\* have the same outcome, and no step of reveal_msg changes an image file
RevealIdempotent ==
    /\ [](\A i, j \in 1..Len(revealLog) :
            (revealLog[i].img = revealLog[j].img /\ revealLog[i].pwd = revealLog[j].pwd
             /\ revealLog[i].src = revealLog[j].src)
                => revealLog[i].result = revealLog[j].result)
    /\ [][(pc \in {"reveal_loop", "reveal_decode"} \/ pc' \in {"reveal_loop", "reveal_decode"}
           \/ revealCalls' # revealCalls)
              => (coverFile' = coverFile /\ outFile' = outFile)]_vars

RevealTwiceWitness ==
    /\ Len(revealLog) = 2
    /\ revealLog[1].src = "out"
    /\ revealLog[1].img = revealLog[2].img
    /\ revealLog[1].result = Revealed(msg)
    /\ revealLog[1].nbits > 0

\* C10: two hide_msg runs on the same source image with the same message and
\* passphrase have the same outcome and write identical pixel data
HideDeterministic ==
    \A i, j \in 1..Len(hideLog) : hideLog[i] = hideLog[j]

HideTwiceWitness ==
    /\ Len(hideLog) = 2
    /\ hideLog[1].kind = "ok"
    /\ hideLog[2].kind = "ok"
    /\ hideLog[2].out.img # coverFile.img

(***************************************************************************)
(* _xor on its own: byte strings of every length up to MaxDataLen (longer  *)
(* than a digest) and every key of Pwds, passed through _xor twice.        *)
(***************************************************************************)
\* multipliers of the byte strings: 0 gives zero bytes, whose image under _xor
\* is the keystream itself
XorSeeds == {0, 37, 255}

XorData == {[i \in 1..n |-> (s * i) % 256] : n \in 0..MaxDataLen, s \in XorSeeds}

XorInit ==
    /\ coverFile = NoFile
    /\ CodecIdle
    /\ xdata \in XorData
    /\ xkey \in Pwds
    /\ xbuf = xdata
    /\ xpasses = 0
    /\ ToolIdle

\* one call of _xor on the bytes in hand, with the same key
XorApply ==
    /\ xpasses < 2
    /\ xbuf' = _xor(xbuf, xkey)
    /\ xpasses' = xpasses + 1
    /\ UNCHANGED << coverFile, outFile, pc, hideVars, revealVars, xdata, xkey, toolVars >>

XorNext == XorApply

XorSpec == XorInit /\ [][XorNext]_vars

\* bit j (from 0, the least significant) of a byte
BitAt(v, j) == (v \div (2 ^ j)) % 2

\* C11: _xor is self-inverse: for every byte string d and every key k,
\* _xor(_xor(d, k), k) = d
XorSelfInverse == xpasses = 2 => xbuf = xdata

XorSelfInverseWitness ==
    /\ xpasses = 2
    /\ Len(xdata) > Len(Sha256Digest(xkey))
    /\ xbuf = xdata
    /\ \E i \in 1..Len(xdata) : xdata[i] # 0

\* C12: for every byte string d, also one longer than the digest, and every key
\* k, _xor(d, k) has the length of d and its byte i is d[i] XOR the digest
\* byte at i modulo the digest length: bit by bit, the sum modulo 2
XorBytewise ==
    xpasses = 1 =>
        /\ Len(xbuf) = Len(xdata)
        /\ \A i \in 1..Len(xdata) :
              LET k == Sha256Digest(xkey)[((i - 1) % Len(Sha256Digest(xkey))) + 1]
              IN  /\ xbuf[i] \in 0..255
                  /\ \A j \in 0..7 :
                        BitAt(xbuf[i], j) = (BitAt(xdata[i], j) + BitAt(k, j)) % 2

XorBytewiseWitness ==
    /\ xpasses = 1
    /\ Len(xdata) > Len(Sha256Digest(xkey))
    /\ xbuf[Len(xdata)] # xdata[Len(xdata)]
    /\ Sha256Digest(xkey)[1] # Sha256Digest(xkey)[Len(xdata) - Len(Sha256Digest(xkey))]

\* C13: hide_msg called with an empty message or an empty passphrase fails
\* before the image is opened or a pixel is read and writes no output;
\* reveal_msg called with an empty passphrase fails before a pixel is read.
\* (Every hide_msg call of a behaviour has the same arguments, and so has
\* every reveal_msg call, so the buffers are those of the failed calls.)
EmptyArgsFailEarly ==
    /\ ((hideCalls > 0 \/ pc \in {"hide_load", "hide_loop"}) /\ (msg = << >> \/ pwd = ""))
          => /\ pc \notin {"hide_load", "hide_loop"}
             /\ pixels = NoImage
             /\ bits = << >>
             /\ outFile = NoFile
             /\ \A i \in 1..Len(hideLog) :
                   hideLog[i] = [kind |-> "InvalidArgument", out |-> NoFile]
    /\ ((revealCalls > 0 \/ pc \in {"reveal_loop", "reveal_decode"}) /\ rpwd = "")
          => /\ pc \notin {"reveal_loop", "reveal_decode"}
             /\ rpixels = NoImage
             /\ rbits = << >>
             /\ \A i \in 1..Len(revealLog) :
                   /\ revealLog[i].result.kind = "InvalidArgument"
                   /\ revealLog[i].nbits = 0

EmptyArgsWitness ==
    /\ coverFile.suffix \in IMAGE_EXTS
    /\ Len(hideLog) > 0
    /\ msg = << >> /\ pwd # ""
    /\ Len(revealLog) > 0
    /\ rpwd = ""

\* the 64 characters of the base64 alphabet
B64Alphabet == {B64Char(v) : v \in 0..63}

\* C14: decoding in reveal_msg fails whenever the extracted cipher text has a
\* character outside the base64 alphabet (the pad character apart) and
\* whenever the XORed bytes are not valid UTF-8: no cipher text with such a
\* character yields a message
MalformedCipherFails ==
    \A i \in Scans :
        /\ (\E k \in 1..Len(revealLog[i].cipher) :
               revealLog[i].cipher[k] \notin B64Alphabet \cup {B64Pad})
              => revealLog[i].result.kind # "ok"
        /\ (B64Decode(revealLog[i].cipher).ok
             /\ ~Utf8Decode(_xor(B64Decode(revealLog[i].cipher).val, revealLog[i].pwd)).ok)
              => revealLog[i].result.kind # "ok"

\* C15: the cipher frame built by hide_msg has no null character, so the only
\* all-zero 8-bit code of the bitstream at an offset that is a multiple of 8
\* is the final sentinel
OnlySentinelIsZero ==
    bits # << >> =>
        /\ Len(bits) % 8 = 0
        /\ \A k \in 1..(Len(bits) \div 8) :
              (\A j \in (8 * k - 7)..(8 * k) : bits[j] = 0) <=> k = Len(bits) \div 8

\* a frame with the character 'A' (six zero bits) ahead of the sentinel
OnlySentinelWitness ==
    /\ pc = "hide_load"
    /\ Len(bits) = 40
    /\ \E k \in 1..4 : IntOfBits(SubSeq(bits, 8 * k - 7, 8 * k)) = 65

(***************************************************************************)
(* The output file of hide_msg in both builds.  The desktop build          *)
(* (src/omni-con3.py) hands the embedding to the stegano library and saves *)
(* the image it returns under a name whose suffix decides the encoding.    *)
(***************************************************************************)
\* the encoding Image.save(path, lossless=...) writes for a path's suffix when
\* no format is given; "" when the suffix names no encoding and save raises
SaveFormat(sfx, lossless) ==
    CASE Lower(sfx) = "png" -> "PNG"
      [] Lower(sfx) = "bmp" -> "BMP"
      [] Lower(sfx) \in {"jpg", "jpeg"} -> "JPEG"
      [] Lower(sfx) = "webp" -> IF lossless THEN "WEBP-lossless" ELSE "WEBP"
      [] OTHER -> ""

LosslessFormats == {"PNG", "BMP", "WEBP-lossless"}

\* the desktop save with every suffix saved under its own name
DesktopSaved_asnamed(sfx) == [suffix |-> sfx, format |-> SaveFormat(sfx, FALSE)]

\* the desktop save: lossless WebP for .webp, a redirect to .png for every
\* suffix but .png and .bmp
DesktopSaved(sfx) ==
    IF Lower(sfx) = "webp" THEN [suffix |-> sfx, format |-> SaveFormat(sfx, TRUE)]
    ELSE IF Lower(sfx) \notin {"png", "bmp"}
         THEN [suffix |-> "png", format |-> SaveFormat("png", FALSE)]
    ELSE [suffix |-> sfx, format |-> SaveFormat(sfx, FALSE)]

\* what _lsb.hide may give for a cover: an image of the cover's size, or an
\* exception (NoImage); the library's embedding is not part of the repository
LsbHide(img) == {NoImage} \cup {CoverImage(kind, img.w, img.h) : kind \in CoverKinds}

\* desktop hide_msg: the argument checks and the first redirect of the output
DesktopHideStart ==
    /\ pc = "menu"
    /\ hideCalls < MaxCalls
    /\ \E m \in Msgs, p \in Pwds, o \in AllOutSuffixes :
         /\ hideCalls > 0 => (m = msg /\ p = pwd /\ o = img_out)
         /\ msg' = m /\ pwd' = p
         /\ IF Lower(coverFile.suffix) \notin IMAGE_EXTS \/ m = << >> \/ p = ""
            THEN /\ HideFinish([kind |-> "InvalidArgument", out |-> NoFile])
                 /\ img_out' = o
            ELSE /\ img_out' = IF Lower(o) \notin IMAGE_EXTS THEN "png" ELSE o
                 /\ pc' = "desktop_embed"
                 /\ UNCHANGED << hideCalls, hideLog >>
    /\ UNCHANGED << coverFile, outFile, bits, pixels, x, y, bit_idx, revealVars, xorVars, toolVars >>

\* desktop hide_msg: the library embeds and the result is saved
DesktopHideSave ==
    /\ pc = "desktop_embed"
    /\ \E secret \in LsbHide(coverFile.img) :
         IF secret = NoImage \/ DesktopSaved(img_out).format = ""
         THEN /\ HideFinish([kind |-> "LibraryError", out |-> NoFile])
              /\ UNCHANGED outFile
         ELSE /\ outFile' = [suffix |-> DesktopSaved(img_out).suffix,
                              format |-> DesktopSaved(img_out).format, img |-> secret]
              /\ HideFinish([kind |-> "ok", out |-> outFile'])
    /\ UNCHANGED << coverFile, msg, pwd, img_out, bits, pixels, x, y, bit_idx, revealVars,
                    xorVars, toolVars >>

\* the covers of the output runs: the largest image of each kind
OutInit ==
    /\ coverFile \in {[suffix |-> sfx, img |-> CoverImage(kind, MaxW, MaxH)] :
                         sfx \in InSuffixes, kind \in CoverKinds}
    /\ CodecIdle
    /\ XorIdle
    /\ ToolIdle

OutNext ==
    \/ HideStartFrom(AllOutSuffixes)
    \/ HideLoad
    \/ HidePixel
    \/ HideBreak
    \/ HideSave
    \/ DesktopHideStart
    \/ DesktopHideSave

OutSpec == OutInit /\ [][OutNext]_vars

\* C16: for every requested output suffix, hide_msg either writes the stego
\* image in a lossless encoding (PNG, BMP or lossless WebP) or fails: no file
\* is ever written in a lossy encoding
OutputLossless ==
    /\ outFile # NoFile => outFile.format \in LosslessFormats
    /\ \A i \in 1..Len(hideLog) :
          IF hideLog[i].kind = "ok"
          THEN hideLog[i].out.format \in LosslessFormats
          ELSE hideLog[i].out = NoFile

\* a lossy name was requested and a lossless file was written
OutputLosslessWitness ==
    /\ Len(hideLog) > 0
    /\ hideLog[1].kind = "ok"
    /\ Lower(img_out) \in {"jpg", "jpeg"}
    /\ outFile.suffix = "png"
    /\ outFile.format = "PNG"

\* C17: when hide_msg fails because the bitstream is longer than the capacity,
\* the failure outcome carries the deficit, the number of bits by which the
\* bitstream exceeds width * height * 3
CapacityFailureCarriesDeficit ==
    \A i \in 1..Len(hideLog) :
        hideLog[i].kind = "CapacityExceeded" =>
            /\ "deficit" \in DOMAIN hideLog[i]
            /\ hideLog[i].deficit = Len(bits) - MaxBits(coverFile.img)

\* C18: the bitstream is the 8-bit code of each character of the cipher frame,
\* most significant bit first, in frame order, followed by exactly eight zero
\* bits: for a frame of n characters it has 8 * (n + 1) bits
BitstreamLayout ==
    bits # << >> =>
        LET frame == Cipher(msg, pwd)
            n == Len(frame)
        IN  /\ Len(bits) = 8 * (n + 1)
            /\ \A i \in 1..n : \A j \in 1..8 :
                  bits[8 * (i - 1) + j] = (frame[i] \div (2 ^ (8 - j))) % 2
            /\ \A j \in 1..8 : bits[8 * n + j] = 0

\* a frame of four characters whose first code, 'W', is not a palindrome
BitstreamLayoutWitness ==
    /\ pc = "hide_load"
    /\ Len(bits) = 40
    /\ SubSeq(bits, 1, 8) = << 0, 1, 0, 1, 0, 1, 1, 1 >>

\* C19: after a successful hide_msg, for every bit index k of the bitstream,
\* the low bit of channel k mod 3 (R, G, B) of the pixel at
\* x = (k div 3) mod width, y = (k div 3) div width is bit k
RasterLayout ==
    \A i \in 1..Len(hideLog) :
        hideLog[i].kind = "ok" =>
            LET img == hideLog[i].out.img
            IN  \A k \in 0..(Len(bits) - 1) :
                  PixelAt(img, (k \div 3) % img.w, (k \div 3) \div img.w)[(k % 3) + 1] % 2
                      = bits[k + 1]

\* a bitstream that runs over more than one row of a cover whose low bits it changes
RasterLayoutWitness ==
    /\ Len(hideLog) > 0
    /\ hideLog[1].kind = "ok"
    /\ coverFile.img.w > 1
    /\ Len(bits) > 3 * coverFile.img.w
    /\ LSBs(hideLog[1].out.img) # LSBs(coverFile.img)

\* the generator the desktop build hands to _lsb.hide and to _lsb.reveal; the
\* library walks the image as the generator directs
DesktopHideGenerator == "eratosthenes"
DesktopRevealGenerator == "eratosthenes"

\* C20: reveal_msg visits pixels and channels in the order hide_msg writes
\* them.  Termux build: while bits remain hide_msg writes bits bit_idx,
\* bit_idx + 1, bit_idx + 2 into R, G, B of the pixel of raster index
\* bit_idx / 3; reveal_msg has collected three bits per pixel visited, in
\* raster order; and the bits collected from the image hide_msg wrote are, one
\* by one, the bits of the bitstream.  Desktop build: both calls hand the
\* library the same generator.
TraversalMatches ==
    /\ (pc = "hide_loop" /\ y < pixels.h /\ bit_idx < Len(bits))
          => bit_idx = 3 * (y * pixels.w + x)
    /\ pc = "reveal_loop" => Len(rbits) = 3 * (ry * rpixels.w + rx)
    /\ (pc \in {"reveal_loop", "reveal_decode"} /\ rsrc = "out")
          => \A k \in 1..Min({Len(rbits), Len(bits)}) : rbits[k] = bits[k]
    /\ DesktopHideGenerator = DesktopRevealGenerator

\* bits collected from more than one row of the image hide_msg wrote
TraversalWitness ==
    /\ pc = "reveal_decode"
    /\ rsrc = "out"
    /\ rpixels.w > 1
    /\ Len(rbits) > 3 * rpixels.w
    /\ \E k \in 1..Len(rbits) : rbits[k] = 1

\* C21: reveal_msg is an early-exit scan: once the termination test has fired
\* no further pixel is read, and the characters are decoded as the bits
\* arrive: during the scan the characters of the whole groups of eight bits
\* collected so far are already built
EarlyExitIncremental ==
    /\ rbroke => pc # "reveal_loop"
    /\ pc = "reveal_loop" => chars = CharsOf(rbits)

(***************************************************************************)
(* The termination test of reveal_msg on the bits of a frame: every pair   *)
(* of characters a cipher frame can hold side by side, followed by the     *)
(* sentinel, collected three bits at a time from every alignment of the    *)
(* pair to the pixel boundary.                                             *)
(***************************************************************************)
\* the characters of a cipher frame: the base64 alphabet and '='
FrameChars == B64Alphabet \cup {B64Pad}

WinInit ==
    /\ coverFile = NoFile /\ outFile = NoFile
    /\ pc = "window_scan"
    /\ msg = << >> /\ pwd = "" /\ img_out = ""
    /\ \E c1, c2 \in FrameChars : bits = BitsOf(<< c1, c2 >>)
    /\ pixels = NoImage
    /\ x = 0 /\ y = 0 /\ bit_idx = 0
    /\ hideCalls = 0 /\ hideLog = << >>
    /\ rsrc = "" /\ rpwd = ""
    /\ rpixels = NoImage /\ chars = << >>
    /\ \E k \in 0..2 : rbits = SubSeq(bits, 1, k)
    /\ rx = 0 /\ ry = 0 /\ rbroke = FALSE
    /\ revealCalls = 0 /\ revealLog = << >>
    /\ XorIdle
    /\ ToolIdle

\* the body of the scan loop for one pixel whose three low bits are the next
\* bits of the bitstream: they are collected, then the last eight are tested
WindowScan ==
    /\ pc = "window_scan"
    /\ ~rbroke
    /\ Len(rbits) < Len(bits)
    /\ LET bs == SubSeq(bits, 1, Min({Len(rbits) + 3, Len(bits)}))
       IN  IF NullTerminated(bs)
           THEN /\ rbits' = SubSeq(bs, 1, Len(bs) - 8)
                /\ rbroke' = TRUE
           ELSE /\ rbits' = bs
                /\ UNCHANGED rbroke
    /\ UNCHANGED << coverFile, outFile, pc, hideVars, xorVars, toolVars, rsrc, rpwd, rpixels, chars,
                    rx, ry, revealCalls, revealLog >>

WinNext == WindowScan

WinSpec == WinInit /\ [][WinNext]_vars

\* C22: the termination test of the Termux reveal_msg never fires while its
\* 8-bit window lies inside the character bits of a cipher frame, at any
\* alignment: when it fires, the window (the eight bits cut off by the break)
\* reaches into the sentinel
WindowOnlyOnSentinel ==
    rbroke => Len(rbits) + 8 > Len(bits) - 8

\* the test fired on a window that holds character bits and sentinel bits
WindowWitness ==
    /\ rbroke
    /\ Len(rbits) + 8 < Len(bits)
    /\ Len(rbits) % 8 # 0

(***************************************************************************)
(* hide_msg on its own, on every cover of the model; a call that has       *)
(* started runs on: the loops are straight-line code.                      *)
(***************************************************************************)
HideNext ==
    \/ HideStart
    \/ HideLoad
    \/ HidePixel
    \/ HideBreak
    \/ HideSave

HideSpec ==
    /\ Init
    /\ [][HideNext]_vars
    /\ WF_vars(HidePixel)
    /\ WF_vars(HideBreak)
    /\ WF_vars(HideSave)

\* C23: in the embedding loop 0 <= bit_idx <= len(bits) in every state; a step
\* of the loop advances the cursor by one for each channel it writes, the
\* channels written are those of raster index bit_idx up to the new cursor,
\* each given its own bit, and no other channel changes; and once the
\* capacity check has passed the loop ends with bit_idx = len(bits)
CursorInvariant ==
    /\ [](pc = "hide_loop" => (0 <= bit_idx /\ bit_idx <= Len(bits)))
    /\ [][pc = "hide_loop" =>
            /\ bit_idx' - bit_idx \in 0..3
            /\ \A k \in 0..(MaxBits(pixels) - 1) :
                  IF bit_idx <= k /\ k < bit_idx'
                  THEN /\ ChannelAt(pixels', k) % 2 = bits[k + 1]
                       /\ ChannelAt(pixels', k) \div 2 = ChannelAt(pixels, k) \div 2
                  ELSE ChannelAt(pixels', k) = ChannelAt(pixels, k)]_vars
    /\ [][(pc = "hide_loop" /\ pc' # "hide_loop") => bit_idx = Len(bits)]_vars
    /\ (pc = "hide_loop" ~> (pc = "menu" /\ bit_idx = Len(bits)))

\* a finished embedding whose last pixel took one bit only, on several rows
CursorWitness ==
    /\ Len(hideLog) > 0
    /\ hideLog[1].kind = "ok"
    /\ bit_idx = 40
    /\ coverFile.img.h > 1
    /\ 3 * coverFile.img.w < 40

(***************************************************************************)
(* convert and the batches of both builds.  A file of the folder has a     *)
(* suffix and, as tool, what the external program or library does when it  *)
(* is run on the file: "exit0" it ends with status 0, "exit1" it ends with *)
(* a non-zero status, "missing" the executable cannot be started, "slow"   *)
(* it runs for more than 600 seconds and then ends with status 0.          *)
(***************************************************************************)
Builds == {"termux", "desktop"}
FileSuffixes == {"png", "mp4"}
Tools == {"exit0", "exit1", "missing", "slow"}
Folders == UNION {[1..n -> [suffix : FileSuffixes, tool : Tools]] : n \in 0..MaxFiles}

\* the formats FFmpeg can write, and the target extensions asked for
MUX == {"mp3", "mp4", "png"}
TargetExts == {"mp4", "xyz"}
VIDEO_EXTS == {"mp4", "webm", "mov", "mkv", "avi", "flv", "m4v", "mpeg", "vob", "m2ts",
               "ts", "asf"}
Engines == {"1", "2", "3", "4", "9"}
BatchOps == {"batch_convert", "batch_watermark"}

\* Termux: Popen, then poll until the process has ended, whatever its status;
\* after 600 seconds the process is terminated and TimeoutExpired is raised
TermuxPopen(tool) ==
    CASE tool = "exit0" -> [status |-> "0", outcome |-> "return"]
      [] tool = "exit1" -> [status |-> "1", outcome |-> "return"]
      [] tool = "missing" -> [status |-> "", outcome |-> "raise"]
      [] tool = "slow" -> [status |-> "", outcome |-> "raise"]

\* desktop: run(cmd), subprocess.run with check=True; CalledProcessError is
\* raised again, FileNotFoundError ends the program with sys.exit(1)
DesktopRun(tool) ==
    CASE tool = "exit0" -> [status |-> "0", outcome |-> "return"]
      [] tool = "exit1" -> [status |-> "1", outcome |-> "raise"]
      [] tool = "missing" -> [status |-> "", outcome |-> "exit"]
      [] tool = "slow" -> [status |-> "0", outcome |-> "return"]

Transcode(b, tool) == IF b = "termux" THEN TermuxPopen(tool) ELSE DesktopRun(tool)

\* convert(src, outdir, ext): saved says that 'Saved: <dst>' was reported
Convert(b, f, ext) ==
    IF ext \notin MUX
    THEN [fn |-> "convert", status |-> "", saved |-> FALSE, outcome |-> "raise"]
    ELSE [fn |-> "convert", status |-> Transcode(b, f.tool).status,
          saved |-> Transcode(b, f.tool).outcome = "return",
          outcome |-> Transcode(b, f.tool).outcome]

\* wm_image_pillow and wm_image_cv: the imaging library writes the image or raises
WmImage(f) ==
    IF f.suffix \notin IMAGE_EXTS \/ f.tool \in {"exit1", "missing"}
    THEN [fn |-> "wm_image", status |-> "", saved |-> FALSE, outcome |-> "raise"]
    ELSE [fn |-> "wm_image", status |-> "", saved |-> TRUE, outcome |-> "return"]

\* wm_video_ffmpeg, and wm_video_cv whose audio is remuxed through run
WmVideo(b, f) ==
    IF f.suffix \notin VIDEO_EXTS
    THEN [fn |-> "wm_video", status |-> "", saved |-> FALSE, outcome |-> "raise"]
    ELSE [fn |-> "wm_video", status |-> Transcode(b, f.tool).status,
          saved |-> Transcode(b, f.tool).outcome = "return",
          outcome |-> Transcode(b, f.tool).outcome]

Skip == [fn |-> "skip", status |-> "", saved |-> FALSE, outcome |-> "return"]

\* the engines of batch_watermark that work on images
ImageEngines(b) == IF b = "termux" THEN {"1"} ELSE {"1", "2"}
VideoEngines(b) == IF b = "termux" THEN {"2"} ELSE {"3", "4"}

\* files = [f for f in folder.iterdir() if ...], as positions in the folder
Selected(b, op, arg, fs) ==
    LET valid_exts == IF arg \in ImageEngines(b) THEN IMAGE_EXTS ELSE VIDEO_EXTS
        Keep(i) == op = "batch_convert" \/ fs[i].suffix \in valid_exts
    IN  SelectSeq([i \in 1..Len(fs) |-> i], Keep)

\* the body of the batch loop for one file, inside its try
BatchBody(b, op, arg, f) ==
    IF op = "batch_convert" THEN Convert(b, f, arg)
    ELSE IF arg \in ImageEngines(b) /\ f.suffix \in IMAGE_EXTS THEN WmImage(f)
    ELSE IF arg \in VideoEngines(b) /\ f.suffix \in VIDEO_EXTS THEN WmVideo(b, f)
    ELSE Skip

\* the record of a call on file i: an exception is reported by the caller's
\* except clause; sys.exit is no Exception and passes it
Call(i, r) ==
    [file |-> i, fn |-> r.fn, status |-> r.status, saved |-> r.saved,
     outcome |-> r.outcome, reported |-> r.outcome = "raise"]

ToolInit ==
    /\ coverFile = NoFile
    /\ CodecIdle
    /\ XorIdle
    /\ build \in Builds
    /\ folder \in Folders
    /\ job = NoJob /\ files = << >> /\ fidx = 0
    /\ calls = << >> /\ running = TRUE

\* single_convert: one file of the folder is converted
SingleConvert ==
    /\ running /\ job = NoJob
    /\ \E i \in 1..Len(folder), ext \in TargetExts :
         /\ calls' = Append(calls, Call(i, Convert(build, folder[i], ext)))
         /\ running' = (Convert(build, folder[i], ext).outcome # "exit")
         /\ job' = [op |-> "single_convert", arg |-> ext, over |-> TRUE]
    /\ UNCHANGED << coverFile, outFile, pc, hideVars, revealVars, xorVars, build, folder,
                    files, fidx >>

\* a batch starts: the files are selected; with none the batch fails at once
BatchStart ==
    /\ running /\ job = NoJob
    /\ \E op \in BatchOps, arg \in TargetExts \cup Engines :
         /\ op = "batch_convert" <=> arg \in TargetExts
         /\ files' = Selected(build, op, arg, folder)
         /\ job' = [op |-> op, arg |-> arg, over |-> files' = << >>]
    /\ fidx' = 0
    /\ UNCHANGED << coverFile, outFile, pc, hideVars, revealVars, xorVars, build, folder,
                    calls, running >>

\* BatchFile without the try around the loop body: an exception ends the batch
BatchFile_nocatch ==
    /\ running /\ job.op \in BatchOps /\ ~job.over
    /\ fidx < Len(files)
    /\ LET i == files[fidx + 1]
           r == BatchBody(build, job.op, job.arg, folder[i])
       IN  /\ calls' = Append(calls, Call(i, r))
           /\ running' = (r.outcome # "exit")
           /\ job' = [job EXCEPT !.over = (r.outcome = "raise")]
    /\ fidx' = fidx + 1
    /\ UNCHANGED << coverFile, outFile, pc, hideVars, revealVars, xorVars, build, folder,
                    files >>

\* one iteration of the batch loop
BatchFile ==
    /\ running /\ job.op \in BatchOps /\ ~job.over
    /\ fidx < Len(files)
    /\ LET i == files[fidx + 1]
           r == BatchBody(build, job.op, job.arg, folder[i])
       IN  /\ calls' = Append(calls, Call(i, r))
           /\ running' = (r.outcome # "exit")
    /\ fidx' = fidx + 1
    /\ UNCHANGED << coverFile, outFile, pc, hideVars, revealVars, xorVars, build, folder,
                    job, files >>

\* the loop has run over every selected file
BatchEnd ==
    /\ running /\ job.op \in BatchOps /\ ~job.over
    /\ fidx = Len(files)
    /\ job' = [job EXCEPT !.over = TRUE]
    /\ UNCHANGED << coverFile, outFile, pc, hideVars, revealVars, xorVars, build, folder,
                    files, fidx, calls, running >>

ToolNext ==
    \/ SingleConvert
    \/ BatchStart
    \/ BatchFile
    \/ BatchEnd

ToolSpec == ToolInit /\ [][ToolNext]_vars

\* C24: convert reports 'Saved: <dst>' only if the transcoder ended with
\* status 0; when the transcoder fails, convert raises to its caller and
\* does not report the file as saved
SavedOnlyOnSuccess ==
    \A j \in 1..Len(calls) :
        calls[j].fn = "convert" =>
            /\ calls[j].saved => calls[j].status = "0"
            /\ calls[j].status \notin {"0", ""} =>
                  (~calls[j].saved /\ calls[j].outcome = "raise")

\* a batch has ended: its loop was left, or the program has exited
BatchOver == job.op \in BatchOps /\ (job.over \/ ~running)

\* the calls made so far are on the selected files, in their order, one each
InSequence ==
    /\ Len(calls) = fidx
    /\ fidx <= Len(files)
    /\ \A j \in 1..Len(calls) : calls[j].file = files[j]
    /\ \A j, k \in 1..Len(files) : j < k => files[j] < files[k]

====
